---- MODULE Spec2Model ----
(***************************************************************************)
(* Model of the network-lab backend (backend/src): the remote-desktop      *)
(* bridge (guacamole.rs), the QEMU supervisor entry points (qemu.rs), the  *)
(* request handlers (routes.rs) and the path resolver (models.rs).         *)
(*                                                                         *)
(* Every function of qemu.rs has the body `unimplemented!(...)`: a call    *)
(* panics before it reads or writes anything.  The model keeps that        *)
(* behaviour: such a call ends the calling task with a panic.              *)
(***************************************************************************)
EXTENDS Integers, Sequences, FiniteSets, TLC

\* Option::None of an Option<u16> / of an optional identifier (all the optional
\* values of the model are natural numbers).
None == 0 - 1

\* ------------------------------------------------------------------ bounds
\* Gateway-assigned connection identifiers that can be handed out.
MaxConnections == 2
\* Highest VNC display number used by the inputs.
MaxDisplay == 1

\* The concurrently running request / caller tasks, and the nodes (node ids).
Tasks == { 1, 2 }
Nodes == { 1, 2 }
ConnIds == 1..MaxConnections
Displays == 0..MaxDisplay

\* ------------------------------------------------------------ configuration
\* main.rs: the keys load_envs puts into the map, file by file.
ENV_FILES ==
    { "POSTGRES_USER", "POSTGRES_PASSWORD", "POSTGRES_DB", "POSTGRES_PORT",
      "POSTGRES_HOST",
      "IMAGE_DIR", "OVERLAY_DIR",
      "BACKEND_HOST", "BACKEND_PORT",
      "GUAC_DB", "GUAC_DB_USER", "GUAC_DB_PASSWORD", "GUAC_HTTPS",
      "GUAC_HOST", "GUAC_PORT", "GUAC_TUNNEL_PATH", "GUAC_API_PATH",
      "GUAC_CONNECTION_PREFIX" }

\* main.rs: the map handed to AppState: the loaded keys plus the three
\* values main() inserts.
MainEnv == ENV_FILES \cup { "DATABASE_URL", "GUAC_DATABASE_URL", "GUAC_URL" }

\* The `env: &HashMap<String, String>` parameter of the bridge functions: the
\* map main() builds, or that map with the credential keys a caller added.
EnvChoices ==
    { MainEnv,
      MainEnv \cup { "GUAC_ADMIN_USER", "GUAC_ADMIN_PASS" },
      MainEnv \cup { "GUAC_ADMIN_USER", "GUAC_ADMIN_PASS",
                     "GUAC_USER", "GUAC_PASS" } }

\* guacamole.rs build_env_config: the keys it reads with `.unwrap()`.
BuildEnvKeys ==
    { "GUAC_URL", "GUAC_TUNNEL_PATH", "GUAC_API_PATH",
      "GUAC_CONNECTION_PREFIX", "GUAC_ADMIN_USER", "GUAC_ADMIN_PASS" }

\* guacamole.rs delete: the keys it reads with `.unwrap()`.
DeleteEnvKeys == { "GUAC_USER", "GUAC_PASS" }

\* ------------------------------------------------------------------- state
VARIABLES
    env,        \* keys present in the configuration map
    node,       \* node[n]: the persisted Node record (status)
    instance,   \* instance[n]: the QemuInstance of node n (process "none": no instance)
    gw,         \* identifiers of the connection records the gateway holds
    next_id,    \* next identifier the gateway assigns
    conn,       \* the GuacamoleConnection values returned to callers
    task,       \* task[t]: what task t is executing and where it is
    disk,       \* the overlay files, the image files and each node's overlay path
    pure        \* the call of a function that takes all it reads as arguments:
                \* its name, its arguments and its result

vars == <<env, node, instance, gw, next_id, conn, task, disk, pure>>

\* models.rs NodeStatus
NodeStatus == { "Running", "Stopped" }

\* qemu.rs QemuInstance {node_id, process, vnc_port, monitor_socket}
QemuInstance(n, port) ==
    [node_id |-> n, process |-> "alive", vnc_port |-> port]

\* No QemuInstance value exists for node n.
NoInstance(n) == [node_id |-> n, process |-> "none", vnc_port |-> None]
Tracked(n) == instance[n].process # "none"

\* VNC port of a display (qemu.rs enable_vnc doc: port = 5900 + display).
VncBase == 5900
PortOf(d) == VncBase + d

\* models.rs Image: the image files (under IMAGE_DIR), by image id.
ImageFiles == { 1, 2 }
\* The overlay paths (under OVERLAY_DIR) that Node.instance_overlay_path
\* resolves to.
OverlayPaths == { 1, 2 }
\* models.rs Node.image_id: node n is based on image n.
node_image_id(n) == n

\* A file at an overlay path: absent, or a file with its backing reference,
\* whether it holds deltas written by a VM, and whether it is a well-formed
\* qcow2 overlay.
NoFile == [exists |-> FALSE, backing |-> None, deltas |-> FALSE, valid |-> FALSE]
Overlay(b, dl, v) == [exists |-> TRUE, backing |-> b, deltas |-> dl, valid |-> v]
OverlayFiles ==
    { NoFile } \cup { Overlay(b, dl, v) : b \in ImageFiles, dl \in BOOLEAN, v \in BOOLEAN }

\* Every node has its own overlay path with a fresh overlay on its image, and
\* every image file exists.
OwnOverlays ==
    [path |-> [n \in Nodes |-> n], images |-> ImageFiles,
     file |-> [p \in OverlayPaths |-> Overlay(p, FALSE, TRUE)]]

\* The live QEMU processes that have the overlay at path p open for writing:
\* the -drive argument of a node's process points to its instance overlay
\* (build_qemu_args).
Writers(p) == { n \in Nodes : Tracked(n) /\ disk.path[n] = p }
InUse(p) == Writers(p) # {}

\* What a call returned: Ok, Err(<error variant>), or a panic with its message.
Pending == << "pending", "" >>
Ok == << "Ok", "" >>
OkVal(v) == << "Ok", v >>
Err(e) == << "Err", e >>
Panic(msg) == << "panic", msg >>

\* A task: the operation it runs (op) on node / instance n with connection c
\* and Option<u16> vnc_display, where it is (pc), the functions it has called
\* so far (called), the instance's vnc_port when the call began (vnc_at_call)
\* and the call's result (res).  For the overlay functions: the overlay path
\* and image of the call, and the file at that path when the call began.
\* For session creation: the outcome of the last HTTP exchange, the token of
\* the AuthResponse received, and the token sent with the create request.
Idle == [op |-> "idle", pc |-> "idle", n |-> None, c |-> None,
         vnc_display |-> None, called |-> {}, vnc_at_call |-> None,
         path |-> None, image |-> None, before |-> None,
         outcome |-> "", auth_response |-> None, request_token |-> None,
         res |-> Pending]

\* A task holds `&mut QemuInstance` of node n while it runs an operation on it.
\* (The variant is one lock for all nodes: any running operation holds it.)
BorrowedGlobal(n) == \E t \in Tasks : task[t].pc # "idle" /\ task[t].n # None
Borrowed(n) == \E t \in Tasks : task[t].pc # "idle" /\ task[t].n = n
                                /\ task[t].op \in { "new", "delete_with_vnc_disable",
                                                    "qemu::stop_node", "qemu::kill_node",
                                                    "qemu::enable_vnc", "qemu::disable_vnc",
                                                    "qemu::is_running" }

\* The QemuInstance values are inputs: qemu.rs builds none (start_node is
\* unimplemented), the bridge functions receive them from their caller.
Machines ==
    /\ node \in [Nodes -> [status : NodeStatus]]
    /\ instance \in [Nodes -> { NoInstance(n) : n \in Nodes } \cup
                       { QemuInstance(n, p) :
                           n \in Nodes, p \in { None } \cup { PortOf(d) : d \in Displays } }]
    \* an instance exists exactly for the nodes that run, under its node's id,
    \* and the given instances do not share a VNC port
    /\ \A n \in Nodes :
         /\ Tracked(n) <=> (node[n].status = "Running")
         /\ instance[n].node_id = n
    /\ \A m, n \in Nodes :
         (m # n /\ instance[m].vnc_port # None)
         => instance[m].vnc_port # instance[n].vnc_port

\* No gateway record, no connection handed out, no call under way.
Fresh ==
    /\ gw = {}
    /\ next_id = 1
    /\ conn = {}
    /\ task = [t \in Tasks |-> Idle]
    /\ pure = [fn |-> "none"]

Init ==
    /\ env \in EnvChoices
    /\ Machines
    /\ disk = OwnOverlays
    /\ Fresh

\* The task ends with value r.
Ends(t, r) == task' = [task EXCEPT ![t].pc = "done", ![t].res = r]
\* The task goes on to p; the functions of guacamole.rs / qemu.rs it enters
\* are recorded.
Goto(t, p) ==
    task' = [task EXCEPT ![t].pc = p,
                         ![t].called = IF p \in { "delete", "disable_vnc" }
                                       THEN @ \cup { p } ELSE @]

\* `unimplemented!("f is not yet implemented")`: the call of f panics; nothing
\* else changes.
unimplemented(t, f) ==
    /\ task' = [task EXCEPT ![t].pc = "done", ![t].res = Panic("not implemented"),
                            ![t].called = @ \cup { f }]
    /\ UNCHANGED <<pure, disk, env, node, instance, gw, next_id, conn>>

\* `.unwrap()` on the None of a missing key.
UnwrapNone == Panic("called Option::unwrap() on a None value")

\* Outcomes of one HTTP exchange with the gateway: a success status with a body
\* that parses, a non-success status (`error_for_status`), or a reqwest error
\* (`send().await?` / `.json().await?`: refused, timed out, undecodable body).
HttpOutcomes == { "ok", "status", "transport" }

\* ------------------------------------------------------------ routes.rs
RouteHandlers == { "routes::run_node", "routes::stop_node", "routes::wipe_node" }

\* POST /node/{id}/run|stop|wipe arrives: axum runs the handler as its own task.
Request(t, h, n) ==
    /\ task[t].pc = "idle"
    /\ task' = [task EXCEPT ![t] = [Idle EXCEPT !.op = h, !.pc = "handler", !.n = n]]
    /\ UNCHANGED <<pure, disk, env, node, instance, gw, next_id, conn>>

\* routes.rs run_node / stop_node / wipe_node: the body answers
\* ApiResponse::error("Not yet implemented") and touches no state.
NotYetImplemented(t, h) ==
    /\ task[t].pc = "handler" /\ task[t].op = h
    /\ Ends(t, << "Json", "error: Not yet implemented" >>)
    /\ UNCHANGED <<pure, disk, env, node, instance, gw, next_id, conn>>

run_node(t) == NotYetImplemented(t, "routes::run_node")
routes_stop_node(t) == NotYetImplemented(t, "routes::stop_node")
routes_wipe_node(t) == NotYetImplemented(t, "routes::wipe_node")

\* POST /vnc: create_vnc_connection calls GuacamoleConnection::from_vnc with the
\* payload's host and port (passed through to the gateway unread).
create_vnc_connection(t) ==
    /\ task[t].pc = "idle"
    /\ task' = [task EXCEPT ![t] = [Idle EXCEPT !.op = "from_vnc",
                                                !.pc = "build_env_config"]]
    /\ UNCHANGED <<pure, disk, env, node, instance, gw, next_id, conn>>

\* --------------------------------------------------------- guacamole.rs
\* GuacamoleConnection::new, lines 96-102: enable VNC when the instance has no
\* port (display = vnc_display.unwrap_or(0)), then get_vnc_info.
unwrap_or(opt, dflt) == IF opt = None THEN dflt ELSE opt

\* Both branches of lines 96-102 end in a function of qemu.rs whose body is
\* unimplemented!(..), so a call of new never gets to build_env_config.

new(t, n, vd) ==
    /\ task[t].pc = "idle"
    /\ Tracked(n) /\ ~Borrowed(n)
    /\ task' = [task EXCEPT ![t] =
                 [Idle EXCEPT !.op = "new", !.n = n, !.vnc_display = vd,
                              !.pc = IF instance[n].vnc_port = None
                                     THEN "enable_vnc" ELSE "get_vnc_info"]]
    /\ UNCHANGED <<pure, disk, env, node, instance, gw, next_id, conn>>

\* build_env_config: every key is read with `.unwrap()`: a missing key panics.
build_env_config(t) ==
    /\ task[t].pc = "build_env_config"
    /\ IF BuildEnvKeys \subseteq env THEN Goto(t, "authenticate")
                                      ELSE Ends(t, UnwrapNone)
    /\ UNCHANGED <<pure, disk, env, node, instance, gw, next_id, conn>>

\* authenticate, lines 309-313: `send().await?` and `.json().await?` pass a
\* reqwest error on as Request; `error_for_status().map_err(|_| AuthFailed)`
\* turns a non-success status into AuthFailed.  (The variant reports every
\* failure as AuthFailed.)
authenticate_always_AuthFailed(o) == Err("AuthFailed")
authenticate_error(o) ==
    IF o = "status" THEN Err("AuthFailed") ELSE Err("Request")

\* The token the gateway issues to task t's token request.
TokenOf(t) == t

\* authenticate: POST {api}/tokens; on success the AuthResponse is returned.
authenticate(t) ==
    /\ task[t].pc = "authenticate"
    /\ \E o \in HttpOutcomes :
         task' = [task EXCEPT
                    ![t].outcome = o,
                    ![t].pc = IF o = "ok" THEN "create_connection" ELSE "done",
                    ![t].auth_response = IF o = "ok" THEN TokenOf(t) ELSE @,
                    ![t].res = IF o = "ok" THEN @ ELSE authenticate_error(o)]
    /\ UNCHANGED <<pure, disk, env, node, instance, gw, next_id, conn>>

\* create_connection: POST {api}/session/data/{ds}/connections, then the
\* caller (new / from_vnc) builds the GuacamoleConnection from the identifier.
\* On a reqwest error the gateway may or may not have stored the record.
\* Lines 342-352: the request carries auth_response.auth_token; a non-success
\* status becomes ConnectionFailed(e.to_string()), a reqwest error Request.
create_connection_error(o) ==
    IF o = "status" THEN Err("ConnectionFailed") ELSE Err("Request")

create_connection(t) ==
    /\ task[t].pc = "create_connection"
    /\ \E o \in HttpOutcomes, stored \in BOOLEAN :
         /\ (o = "ok" => stored) /\ (o = "status" => ~stored)
         /\ stored => next_id <= MaxConnections
         /\ gw' = IF stored THEN gw \cup { next_id } ELSE gw
         /\ next_id' = IF stored THEN next_id + 1 ELSE next_id
         /\ conn' = IF o = "ok" THEN conn \cup { [connection_id |-> next_id] }
                                ELSE conn
         /\ task' = [task EXCEPT
                      ![t].pc = "done",
                      ![t].outcome = o,
                      ![t].request_token = task[t].auth_response,
                      ![t].c = IF o = "ok" THEN next_id ELSE @,
                      ![t].res = IF o = "ok" THEN Ok
                                 ELSE create_connection_error(o)]
    /\ UNCHANGED <<pure, disk, env, node, instance>>

\* delete_with_vnc_disable, lines 246 and 249: the calls it makes, in order.
delete_with_vnc_disable_swapped == << "disable_vnc", "delete" >>
delete_with_vnc_disable_body == << "delete", "disable_vnc" >>

\* What follows call f in a body: the next call, or the final Ok(()).
NextAfter(body, f) ==
    IF \E i \in 1..(Len(body) - 1) : body[i] = f
    THEN body[(CHOOSE i \in 1..(Len(body) - 1) : body[i] = f) + 1]
    ELSE "return"

ContinueWith(t, p) ==
    IF p = "return" THEN Ends(t, Ok) ELSE Goto(t, p)

delete_with_vnc_disable(t, c, n) ==
    /\ task[t].pc = "idle"
    /\ c \in conn
    /\ Tracked(n) /\ ~Borrowed(n)
    /\ task' = [task EXCEPT ![t] =
                 [Idle EXCEPT !.op = "delete_with_vnc_disable", !.n = n,
                              !.c = c.connection_id,
                              !.vnc_at_call = instance[n].vnc_port,
                              !.pc = delete_with_vnc_disable_body[1],
                              !.called = { delete_with_vnc_disable_body[1] }]]
    /\ UNCHANGED <<pure, disk, env, node, instance, gw, next_id, conn>>

\* delete, lines 210-211: GUAC_USER / GUAC_PASS are read with `.unwrap()`.
delete(t) ==
    /\ task[t].pc = "delete"
    /\ IF DeleteEnvKeys \subseteq env THEN Goto(t, "delete_tokens")
                                       ELSE Ends(t, UnwrapNone)
    /\ UNCHANGED <<pure, disk, env, node, instance, gw, next_id, conn>>

\* delete, lines 215-223: POST {api}/tokens.
delete_tokens(t) ==
    /\ task[t].pc = "delete_tokens"
    /\ \E o \in HttpOutcomes :
         CASE o = "ok"        -> Goto(t, "delete_connection")
           [] o = "status"    -> Ends(t, Err("AuthFailed"))
           [] o = "transport" -> Ends(t, Err("Request"))
    /\ UNCHANGED <<pure, disk, env, node, instance, gw, next_id, conn>>

\* delete, lines 225-236: DELETE {api}/session/data/{ds}/connections/{id}.
\* The gateway answers success only for a record it holds; on a reqwest error
\* the record may or may not have been removed.
delete_connection(t) ==
    /\ task[t].pc = "delete_connection"
    /\ \E o \in HttpOutcomes, removed \in BOOLEAN :
         /\ (o = "ok" => removed) /\ (o = "status" => ~removed)
         /\ removed => task[t].c \in gw
         /\ gw' = IF removed THEN gw \ { task[t].c } ELSE gw
         /\ CASE o = "ok" ->
                  ContinueWith(t, NextAfter(delete_with_vnc_disable_body, "delete"))
              [] o = "status"    -> Ends(t, Err("ConnectionFailed"))
              [] o = "transport" -> Ends(t, Err("Request"))
    /\ UNCHANGED <<pure, disk, env, node, instance, next_id, conn>>

\* ---------------------------------------------------------------- qemu.rs
QemuCalls == { "qemu::start_node", "qemu::stop_node", "qemu::kill_node" }
\* is_running(&mut QemuInstance): the liveness check.
LivenessCalls == { "qemu::is_running" }

\* A caller invokes start_node(&Node, ..), stop_node(&mut QemuInstance) or
\* kill_node(&mut QemuInstance).
Call(t, f, n) ==
    /\ task[t].pc = "idle"
    /\ f \in QemuCalls \cup LivenessCalls
    /\ f # "qemu::start_node" => (Tracked(n) /\ ~Borrowed(n))
    /\ task' = [task EXCEPT ![t] = [Idle EXCEPT !.op = f, !.pc = f, !.n = n,
                                                !.vnc_at_call = instance[n].vnc_port]]
    /\ UNCHANGED <<pure, disk, env, node, instance, gw, next_id, conn>>

start_node(t) == task[t].pc = "qemu::start_node" /\ unimplemented(t, "start_node")
stop_node(t) == task[t].pc = "qemu::stop_node" /\ unimplemented(t, "stop_node")
kill_node(t) == task[t].pc = "qemu::kill_node" /\ unimplemented(t, "kill_node")
is_running(t) == task[t].pc = "qemu::is_running" /\ unimplemented(t, "is_running")
enable_vnc(t) == task[t].pc = "enable_vnc" /\ unimplemented(t, "enable_vnc")
get_vnc_info(t) == task[t].pc = "get_vnc_info" /\ unimplemented(t, "get_vnc_info")

\* disable_vnc is the call at line 249 of delete_with_vnc_disable.
disable_vnc(t) == task[t].pc = "disable_vnc" /\ unimplemented(t, "disable_vnc")

\* The call has returned (or unwound): the task and its borrow are released.
Return(t) ==
    /\ task[t].pc = "done"
    /\ task' = [task EXCEPT ![t] = Idle]
    /\ UNCHANGED <<pure, disk, env, node, instance, gw, next_id, conn>>

\* The remote-desktop bridge: callers of GuacamoleConnection::new, from_vnc (via
\* POST /vnc) and delete_with_vnc_disable, running concurrently.
Next ==
    \E t \in Tasks :
        \/ create_vnc_connection(t)
        \/ \E n \in Nodes, vd \in { None } \cup Displays : new(t, n, vd)
        \/ build_env_config(t)
        \/ authenticate(t)
        \/ create_connection(t)
        \/ \E c \in conn, n \in Nodes : delete_with_vnc_disable(t, c, n)
        \/ delete(t)
        \/ delete_tokens(t)
        \/ delete_connection(t)
        \/ enable_vnc(t)
        \/ get_vnc_info(t)
        \/ disable_vnc(t)
        \/ Return(t)

Spec == Init /\ [][Next]_vars

\* The displays instance n holds: the display of its VNC port, and display 0
\* while a GuacamoleConnection::new that was given no display is passing
\* vnc_display.unwrap_or(0) to enable_vnc for it.  (Displays a caller chose
\* explicitly are left out: only the code's own choice is counted.)
DisplaysOf(n) ==
    { d \in Displays : instance[n].vnc_port = PortOf(d) }
    \cup { unwrap_or(task[t].vnc_display, 0) :
             t \in { u \in Tasks : /\ task[u].op = "new" /\ task[u].n = n
                                   /\ task[u].pc = "enable_vnc"
                                   /\ task[u].vnc_display = None } }

\* C4: VNC display numbers are unique among live instances, also when
\* GuacamoleConnection::new is called without a display on several instances.
C4_UniqueDisplays ==
    \A m, n \in Nodes : m # n => DisplaysOf(m) \cap DisplaysOf(n) = {}

\* The task has entered disable_vnc / delete during its current operation.
CalledDisableVnc(t) == "disable_vnc" \in task[t].called
CalledDelete(t) == "delete" \in task[t].called

\* C1: in delete_with_vnc_disable the gateway record is deleted before VNC is
\* disabled: whenever disable_vnc has been entered, delete was called before it
\* and the connection's gateway record is gone; and when the delete step failed
\* (an error or a panic of delete itself), disable_vnc was not entered and the
\* instance's vnc_port is what it was when the call began.  So "disable_vnc
\* issued while the gateway record still exists" is never reached.
C1_TeardownOrder ==
    \A t \in Tasks :
        task[t].op = "delete_with_vnc_disable" =>
            /\ CalledDisableVnc(t) => (CalledDelete(t) /\ task[t].c \notin gw)
            /\ (task[t].pc = "done" /\ (task[t].res[1] = "Err" \/ task[t].res = UnwrapNone))
                 => /\ ~CalledDisableVnc(t)
                    /\ instance[task[t].n].vnc_port = task[t].vnc_at_call

\* C1 witness: one teardown has deleted its gateway record and is in
\* disable_vnc with the instance's VNC still enabled, while another teardown
\* has failed in its delete step (authentication rejected) with its record
\* still on the gateway and its instance's VNC port still set.
C1_Witness ==
    \E t, u \in Tasks :
        /\ task[t].op = "delete_with_vnc_disable" /\ task[t].pc = "disable_vnc"
        /\ task[t].c \notin gw /\ instance[task[t].n].vnc_port # None
        /\ task[u].op = "delete_with_vnc_disable" /\ task[u].pc = "done"
        /\ task[u].res = Err("AuthFailed")
        /\ task[u].c \in gw /\ instance[task[u].n].vnc_port # None

\* C18: the remote-view fields track the session: a session teardown
\* (delete_with_vnc_disable) that has deleted the gateway record and has ended
\* after its disable step leaves the instance with vnc_port = None, so no
\* instance keeps a VNC port whose gateway connection is gone.
C18_RemoteViewCleared ==
    \A t \in Tasks :
        ( /\ task[t].op = "delete_with_vnc_disable" /\ task[t].pc = "done"
          /\ CalledDisableVnc(t) /\ task[t].c \notin gw ) =>
            instance[task[t].n].vnc_port = None

\* Task t is creating a gateway session (from_vnc or new).
Creating(t) == task[t].op \in { "from_vnc", "new" }

\* What the typed results of session creation say, state by state.
C21_Typed ==
    \A t \in Tasks :
        Creating(t) =>
            \* the create step is entered with the AuthResponse of a successful
            \* token exchange, and the create request carries its token
            /\ task[t].pc = "create_connection"
                 => (task[t].outcome = "ok" /\ task[t].auth_response = TokenOf(t))
            /\ task[t].request_token # None
                 => task[t].request_token = task[t].auth_response
            /\ task[t].pc = "done" =>
                 \* a transport failure is Request, whichever request failed
                 /\ task[t].outcome = "transport" => task[t].res = Err("Request")
                 \* a non-success answer is AuthFailed from the token request
                 \* (no create request was sent), ConnectionFailed from the
                 \* create request
                 /\ task[t].outcome = "status" =>
                      task[t].res = IF task[t].request_token = None
                                    THEN Err("AuthFailed")
                                    ELSE Err("ConnectionFailed")
                 /\ task[t].res = Err("AuthFailed") => task[t].request_token = None
                 /\ task[t].res = Ok => (task[t].outcome = "ok" /\ task[t].c # None)

\* Step by step: the gateway gets a new record only from the create request of
\* a task that holds an AuthResponse, and a creation returns Ok only with the
\* record of its connection_id on the gateway.
C21_Step ==
    /\ ~(gw' \subseteq gw) =>
         \E t \in Tasks : /\ Creating(t) /\ task[t].pc = "create_connection"
                          /\ task[t].auth_response # None
                          /\ task'[t].request_token = task[t].auth_response
    /\ \A t \in Tasks :
         (Creating(t) /\ task[t].res # Ok /\ task'[t].res = Ok) =>
             /\ task'[t].c \in gw'
             /\ [connection_id |-> task'[t].c] \in conn'

\* C21: gateway session creation is authenticate-then-create with typed
\* failures: the create request is sent only after a successful token
\* exchange and carries its token; a non-success auth answer gives AuthFailed
\* and no create request; a non-success create answer gives ConnectionFailed;
\* a transport failure gives Request; a GuacamoleConnection is returned only
\* when the gateway holds the record of its connection_id.
C21_AuthenticateThenCreate == []C21_Typed /\ [][C21_Step]_vars

\* C21 witness: one creation has returned its connection, whose record is on
\* the gateway, and another has failed with Request on a transport failure of
\* its token request, before any create request.
C21_Witness ==
    \E t, u \in Tasks :
        /\ task[t].op = "from_vnc" /\ task[t].pc = "done" /\ task[t].res = Ok
        /\ task[t].c \in gw
        /\ task[u].op = "from_vnc" /\ task[u].pc = "done"
        /\ task[u].outcome = "transport" /\ task[u].request_token = None
        /\ task[u].res = Err("Request")

\* Task t is inside an operation on node n and has not finished it: it waits
\* for a gateway HTTP answer or for a call on the instance.
Blocked(t, n) == task[t].n = n /\ task[t].pc \notin { "idle", "done" }

\* The next step of the operation task u is in.
StepOf(u) ==
    \/ build_env_config(u) \/ authenticate(u) \/ create_connection(u)
    \/ delete(u) \/ delete_tokens(u) \/ delete_connection(u)
    \/ enable_vnc(u) \/ get_vnc_info(u) \/ disable_vnc(u)

\* C25: operations on different nodes are independent: while a task is blocked
\* inside an operation on node a, another task can start an operation on any
\* other node b that has an instance (a session creation or a teardown), and
\* an operation under way on b can always take its next step, up to its end.
C25_CrossNodeIndependence ==
    \A t, u \in Tasks : \A a, b \in Nodes :
        (t # u /\ a # b /\ Blocked(t, a)) =>
            /\ (task[u].pc = "idle" /\ Tracked(b)) =>
                 /\ \A vd \in { None } \cup Displays : ENABLED new(u, b, vd)
                 /\ \A c \in conn : ENABLED delete_with_vnc_disable(u, c, b)
            /\ Blocked(u, b) => ENABLED StepOf(u)

\* C25 witness: a teardown on one node waits for the gateway's answer to its
\* token request while a teardown on another node has run to its end.
C25_Witness ==
    \E t, u \in Tasks :
        /\ task[t].op = "delete_with_vnc_disable" /\ task[t].pc = "delete_tokens"
        /\ task[u].op = "delete_with_vnc_disable" /\ task[u].pc = "done"
        /\ task[u].n # task[t].n
        /\ "disable_vnc" \in task[u].called

\* The node lifecycle: the three node routes and direct callers of
\* qemu::start_node / stop_node / kill_node, running concurrently.
InitLifecycle == Init /\ env = MainEnv

NextLifecycle ==
    \E t \in Tasks :
        \/ \E h \in RouteHandlers, n \in Nodes : Request(t, h, n)
        \/ run_node(t)
        \/ routes_stop_node(t)
        \/ routes_wipe_node(t)
        \/ \E f \in QemuCalls \cup LivenessCalls, n \in Nodes : Call(t, f, n)
        \/ start_node(t)
        \/ stop_node(t)
        \/ kill_node(t)
        \/ is_running(t)
        \/ Return(t)

SpecLifecycle == InitLifecycle /\ [][NextLifecycle]_vars

\* C2: a stop_node call that has ended leaves the instance's process exited
\* (the node Stopped): graceful power-down, bounded wait, then kill_node.
C2_StopNodeStops ==
    \A t \in Tasks :
        (task[t].op = "qemu::stop_node" /\ task[t].pc = "done")
        => instance[task[t].n].process = "exited"

\* A lifecycle operation (a node route or a qemu.rs lifecycle call) is running.
InProgress(t) ==
    /\ task[t].op \in RouteHandlers \cup QemuCalls
    /\ task[t].pc \notin { "idle", "done" }

\* C3: lifecycle operations on the same node are mutually exclusive: no two
\* tasks are at once inside a lifecycle operation for the same node.
C3_PerNodeExclusion ==
    \A t, u \in Tasks :
        (t # u /\ InProgress(t) /\ InProgress(u)) => task[t].n # task[u].n

\* C6: a start_node call that has ended returned one of its typed results;
\* for a node already tracked as running that result is NodeAlreadyRunning,
\* and after SpawnFailed the node is Stopped with no tracked instance.
C6_StartNodeResult ==
    \A t \in Tasks :
        (task[t].op = "qemu::start_node" /\ task[t].pc = "done") =>
            /\ task[t].res \in { Ok, Err("NodeAlreadyRunning"),
                                  Err("InvalidConfiguration"), Err("SpawnFailed") }
            /\ Tracked(task[t].n) => task[t].res = Err("NodeAlreadyRunning")
            /\ task[t].res = Err("SpawnFailed")
                 => (~Tracked(task[t].n) /\ node[task[t].n].status = "Stopped")

\* ------------------------------------------------------ the HTTP server
\* routes.rs create_router: the four routes, served with the AppState main()
\* builds.  GuacamoleBootstrap::from_env(&env) borrows the map immutably: a
\* server that gets to serve has env = MainEnv.
InitServer == Init /\ env = MainEnv

\* With that map POST /vnc never gets past build_env_config.
NextServer ==
    \E t \in Tasks :
        \/ \E h \in RouteHandlers, n \in Nodes : Request(t, h, n)
        \/ run_node(t)
        \/ routes_stop_node(t)
        \/ routes_wipe_node(t)
        \/ create_vnc_connection(t)
        \/ build_env_config(t)
        \/ Return(t)

SpecServer == InitServer /\ [][NextServer]_vars

\* C22: configuration is validated at startup, not at request time: a request
\* that is about to read its configuration keys finds them all in the map, and
\* no request ends in a panic on an absent key.
C22_ConfigValidatedAtStartup ==
    \A t \in Tasks :
        /\ task[t].pc = "build_env_config" => BuildEnvKeys \subseteq env
        /\ task[t].pc = "delete" => DeleteEnvKeys \subseteq env
        /\ task[t].res # UnwrapNone

\* ------------------------------------------------- qemu.rs VNC functions
\* Direct callers of enable_vnc(&mut QemuInstance, display),
\* disable_vnc(&mut QemuInstance) and get_vnc_info(&QemuInstance).
VncCalls == { "enable_vnc", "disable_vnc", "get_vnc_info" }

\* The largest u16 (display: u16, vnc_port: Option<u16>), and the smallest
\* display whose port 5900 + display does not fit in a u16.
MaxU16 == 65535
OverflowDisplay == MaxU16 - VncBase + 1

\* A caller invokes f on the instance of node n (display d for enable_vnc).
\* get_vnc_info takes a shared reference: it only needs no `&mut` borrow.
CallVnc(t, f, n, d) ==
    /\ task[t].pc = "idle"
    /\ f \in VncCalls
    /\ Tracked(n) /\ ~Borrowed(n)
    /\ (f = "enable_vnc") <=> (d # None)
    /\ task' = [task EXCEPT ![t] = [Idle EXCEPT !.op = "qemu::" \o f, !.pc = f,
                                                !.n = n, !.vnc_display = d,
                                                !.vnc_at_call = instance[n].vnc_port]]
    /\ UNCHANGED <<pure, disk, env, node, instance, gw, next_id, conn>>

NextVnc ==
    \E t \in Tasks :
        \/ \E f \in VncCalls, n \in Nodes,
              d \in { None } \cup Displays \cup { OverflowDisplay } :
             CallVnc(t, f, n, d)
        \/ enable_vnc(t)
        \/ disable_vnc(t)
        \/ get_vnc_info(t)
        \/ Return(t)

SpecVnc == InitLifecycle /\ [][NextVnc]_vars

\* The call of qemu.rs function f by task t has ended.
Ended(t, f) == task[t].op = "qemu::" \o f /\ task[t].pc = "done"

\* C11: an enable_vnc call that has ended: on an instance that already had a
\* vnc_port it returned VncAlreadyEnabled and the port is unchanged; otherwise
\* it either returned Ok with the port of the display recorded on the instance,
\* or returned an error with vnc_port still unset.
C11_EnableVnc ==
    \A t \in Tasks :
        Ended(t, "enable_vnc") =>
            IF task[t].vnc_at_call # None
            THEN /\ task[t].res = Err("VncAlreadyEnabled")
                 /\ instance[task[t].n].vnc_port = task[t].vnc_at_call
            ELSE \/ /\ task[t].res = OkVal(PortOf(task[t].vnc_display))
                    /\ instance[task[t].n].vnc_port = PortOf(task[t].vnc_display)
                 \/ /\ task[t].res[1] = "Err"
                    /\ instance[task[t].n].vnc_port = None

\* C12: a disable_vnc or get_vnc_info call that has ended on an instance
\* without a vnc_port returned VncNotEnabled and changed nothing; on an
\* instance with a port, get_vnc_info returned that port and a disable_vnc
\* that returned Ok left vnc_port = None.
C12_DisableAndInfo ==
    \A t \in Tasks :
        (Ended(t, "disable_vnc") \/ Ended(t, "get_vnc_info")) =>
            IF task[t].vnc_at_call = None
            THEN /\ task[t].res = Err("VncNotEnabled")
                 /\ instance[task[t].n].vnc_port = None
            ELSE /\ Ended(t, "get_vnc_info")
                    => task[t].res = OkVal(<< "localhost", task[t].vnc_at_call >>)
                 /\ Ended(t, "disable_vnc")
                    => /\ task[t].res[1] \in { "Ok", "Err" }
                       /\ task[t].res = Ok => instance[task[t].n].vnc_port = None

\* ---------------------------------------------- qemu.rs overlay functions
\* create_overlay(backing_image, overlay_path), delete_overlay(overlay_path)
\* and remove_overlay(overlay_path) take paths; create_instance_overlay(node,
\* image, app_state) and wipe_node(node, image, app_state) take a node and the
\* image it is based on.
PathCalls == { "create_overlay", "delete_overlay", "remove_overlay" }
NodeCalls == { "create_instance_overlay", "wipe_node" }
OverlayCalls == PathCalls \cup NodeCalls

\* A caller invokes overlay function f: on path p (with backing image img for
\* create_overlay), or on node n, whose overlay path
\* Node::get_instance_overlay_path resolves to disk.path[n].
CallOverlay(t, f, n, p, img) ==
    /\ task[t].pc = "idle"
    /\ f \in OverlayCalls
    /\ IF f \in NodeCalls
       THEN n # None /\ p = disk.path[n] /\ img = node_image_id(n)
       ELSE n = None /\ p # None /\ ((f = "create_overlay") <=> (img # None))
    /\ task' = [task EXCEPT ![t] = [Idle EXCEPT !.op = "qemu::" \o f, !.pc = f,
                                                !.n = n, !.path = p, !.image = img,
                                                !.before = disk.file[p]]]
    /\ UNCHANGED <<pure, disk, env, node, instance, gw, next_id, conn>>

create_overlay(t) ==
    task[t].pc = "create_overlay" /\ unimplemented(t, "create_overlay")
create_instance_overlay(t) ==
    task[t].pc = "create_instance_overlay"
    /\ unimplemented(t, "create_instance_overlay")
delete_overlay(t) ==
    task[t].pc = "delete_overlay" /\ unimplemented(t, "delete_overlay")
remove_overlay(t) ==
    task[t].pc = "remove_overlay" /\ unimplemented(t, "remove_overlay")
wipe_node(t) == task[t].pc = "wipe_node" /\ unimplemented(t, "wipe_node")

\* The disks the overlay functions are called on: the nodes have their own
\* overlay paths or share one, image 2's file may be missing, and every overlay
\* path holds any file or none.  A running node's process has its overlay
\* open: the file exists, is well formed and its backing image exists; no two
\* running nodes share a path.
Disks ==
    { d \in [path : { [n \in Nodes |-> n], [n \in Nodes |-> 1] },
             images : { ImageFiles, { 1 } },
             file : [OverlayPaths -> OverlayFiles]] :
        /\ \A n \in Nodes :
             Tracked(n) => /\ d.file[d.path[n]].exists
                           /\ d.file[d.path[n]].valid
                           /\ d.file[d.path[n]].backing \in d.images
        /\ \A m, n \in Nodes :
             (m # n /\ Tracked(m) /\ Tracked(n)) => d.path[m] # d.path[n] }

InitOverlay ==
    /\ env = MainEnv
    /\ Machines
    /\ \A n \in Nodes : instance[n].vnc_port = None
    /\ disk \in Disks
    /\ Fresh

NextOverlay ==
    \E t \in Tasks :
        \/ \E f \in OverlayCalls, n \in { None } \cup Nodes,
              p \in { None } \cup OverlayPaths, img \in { None } \cup ImageFiles :
             CallOverlay(t, f, n, p, img)
        \/ create_overlay(t)
        \/ create_instance_overlay(t)
        \/ delete_overlay(t)
        \/ remove_overlay(t)
        \/ wipe_node(t)
        \/ Return(t)

SpecOverlay == InitOverlay /\ [][NextOverlay]_vars

\* C13: create_instance_overlay is idempotent: a call that has ended on a node
\* whose overlay was already present returned Ok and left that file as it was
\* (same backing reference, same contents, still there).
C13_Idempotent ==
    \A t \in Tasks :
        (Ended(t, "create_instance_overlay") /\ task[t].before.exists) =>
            /\ task[t].res = Ok
            /\ disk.file[task[t].path] = task[t].before

\* C14: wipe_node is only performed on a Stopped node: a call that has ended on
\* a node with a live tracked process returned an error and left the overlay
\* untouched; a call that returned Ok on a Stopped node with an overlay left
\* one fresh overlay backed by the node's image, without the old deltas.
C14_WipeOnlyStopped ==
    \A t \in Tasks :
        Ended(t, "wipe_node") =>
            IF Tracked(task[t].n)
            THEN /\ task[t].res[1] = "Err"
                 /\ disk.file[task[t].path] = task[t].before
            ELSE (task[t].before.exists /\ task[t].res = Ok)
                 => disk.file[task[t].path] = Overlay(task[t].image, FALSE, TRUE)

\* The overlay's backing image file exists.
BackingPresent(f) == f.backing \in disk.images

\* C16: remove_overlay never loses data on failure: a call that has ended on an
\* overlay whose backing file is missing, that is not a valid overlay, or that
\* a running process has open, returned an error and left the overlay file
\* present and unmodified.
C16_RemoveKeepsData ==
    \A t \in Tasks :
        ( /\ Ended(t, "remove_overlay") /\ task[t].before.exists
          /\ \/ ~BackingPresent(task[t].before)
             \/ ~task[t].before.valid
             \/ InUse(task[t].path) ) =>
            /\ task[t].res[1] = "Err"
            /\ disk.file[task[t].path] = task[t].before

\* C17: single-writer overlays: no overlay path is open for writing by more
\* than one live process, and a delete_overlay, remove_overlay or wipe_node
\* call that has ended on an overlay a live process has open returned an error
\* and left the file as it was.
C17_SingleWriter ==
    /\ \A p \in OverlayPaths : Cardinality(Writers(p)) <= 1
    /\ \A t \in Tasks :
         ( /\ Ended(t, "delete_overlay") \/ Ended(t, "remove_overlay")
                                        \/ Ended(t, "wipe_node")
           /\ InUse(task[t].path) ) =>
             /\ task[t].res[1] = "Err"
             /\ disk.file[task[t].path] = task[t].before

\* C23: kill_node always terminates with success or a wait timeout: a call
\* that has ended either returned Ok with the process exited, or returned the
\* wait-timeout error; nothing else.
C23_KillNodeOutcome ==
    \A t \in Tasks :
        Ended(t, "kill_node") =>
            \/ task[t].res = Ok /\ instance[task[t].n].process = "exited"
            \/ task[t].res = Err("WaitTimeout")

\* C26: is_running is a non-destructive liveness check: a call that has ended
\* returned Ok(true) for a live process and Ok(false) for an exited one, and
\* left the instance as it was.
C26_IsRunning ==
    \A t \in Tasks :
        Ended(t, "is_running") =>
            /\ task[t].res = OkVal(instance[task[t].n].process = "alive")
            /\ instance[task[t].n].vnc_port = task[t].vnc_at_call

\* C27: the port of display d is exactly 5900 + d, without 16-bit wrap-around:
\* an enable_vnc call that has ended on an instance without a port either
\* returned Ok with the port 5900 + d recorded (d with 5900 + d <= 65535), or,
\* for a display whose port does not fit in 16 bits, returned an error and
\* recorded no port.
C27_PortOfDisplay ==
    \A t \in Tasks :
        (Ended(t, "enable_vnc") /\ task[t].vnc_at_call = None) =>
            IF VncBase + task[t].vnc_display <= MaxU16
            THEN task[t].res[1] = "Ok"
                 => /\ task[t].res = OkVal(VncBase + task[t].vnc_display)
                    /\ instance[task[t].n].vnc_port = VncBase + task[t].vnc_display
            ELSE /\ task[t].res[1] = "Err"
                 /\ instance[task[t].n].vnc_port = None

\* ------------------------------------------------- functions of arguments
\* The state around a call of a function that reads only its arguments: no
\* task runs, no node runs.
Quiet ==
    /\ env = MainEnv
    /\ node = [n \in Nodes |-> [status |-> "Stopped"]]
    /\ instance = [n \in Nodes |-> NoInstance(n)]
    /\ disk = OwnOverlays
    /\ gw = {} /\ next_id = 1 /\ conn = {}
    /\ task = [t \in Tasks |-> Idle]

\* The call returns: its result is recorded.
Returns(r) ==
    /\ pure.res = Pending
    /\ pure' = [pure EXCEPT !.res = r]
    /\ UNCHANGED <<disk, env, node, instance, gw, next_id, conn, task>>

\* ------------------------------------------- qemu.rs allocate_vnc_display
\* Highest display number of the `used` sets and ranges tried.
MaxAllocDisplay == 4

\* allocate_vnc_display(used_displays, range_start, range_end): the body is
\* unimplemented!(..): the call panics whatever its arguments.
allocate_vnc_display(used_displays, range_start, range_end) ==
    Panic("not implemented")

InitAlloc ==
    /\ Quiet
    /\ pure \in [fn : { "allocate_vnc_display" },
                 used_displays : SUBSET (0..MaxAllocDisplay),
                 range_start : 0..MaxAllocDisplay,
                 range_end : 0..MaxAllocDisplay,
                 res : { Pending }]

NextAlloc ==
    Returns(allocate_vnc_display(pure.used_displays, pure.range_start,
                                 pure.range_end))

SpecAlloc == InitAlloc /\ [][NextAlloc]_vars

\* The free displays of an inclusive range.
FreeDisplays(used, start, end) == { d \in start..end : d \notin used }

\* C10: allocate_vnc_display returns the smallest display of [start, end] that
\* is not in `used`, and fails with VncPortAllocationFailed exactly when there
\* is none (the empty range included).
C10_LowestFreeDisplay ==
    pure.res # Pending =>
        LET free == FreeDisplays(pure.used_displays, pure.range_start,
                                 pure.range_end)
        IN  IF free = {}
            THEN pure.res = Err("VncPortAllocationFailed")
            ELSE /\ pure.res[1] = "Ok"
                 /\ pure.res[2] \in free
                 /\ \A d \in free : pure.res[2] <= d

\* ------------------------------------------------ qemu.rs get_image_chain
\* Number of image ids of the image tables tried.
MaxImages == 3
ImageIds == 1..MaxImages

\* Image.parent_id of an id that has no record in the table.
NoRecord == 0 - 2

\* An image table: for every id its record's parent_id (None: a base image),
\* or NoRecord.
ImageTables == [ImageIds -> { NoRecord, None } \cup ImageIds]

\* get_image_chain(image_id, app_state): the body is unimplemented!(..): the
\* call panics whatever the table holds.
get_image_chain(image_id, images) == Panic("not implemented")

InitChain ==
    /\ Quiet
    /\ pure \in [fn : { "get_image_chain" }, images : ImageTables,
                 image_id : ImageIds, res : { Pending }]

NextChain == Returns(get_image_chain(pure.image_id, pure.images))

SpecChain == InitChain /\ [][NextChain]_vars

\* The walk from image id along parent_id, leaf first, for at most `fuel`
\* steps; it stops at a base image, at an id with no record, or out of fuel.
RECURSIVE Walk(_, _, _)
Walk(images, id, fuel) ==
    IF fuel = 0 \/ images[id] = NoRecord THEN << >>
    ELSE IF images[id] = None THEN << id >>
    ELSE << id >> \o Walk(images, images[id], fuel - 1)

Reverse(q) == [i \in 1..Len(q) |-> q[Len(q) + 1 - i]]

\* The walk reaches a base image: the table is acyclic and complete from id.
Rooted(images, id) ==
    LET w == Walk(images, id, MaxImages)
    IN  w # << >> /\ images[w[Len(w)]] = None

\* The first id without a record that the walk from id runs into (None if none).
RECURSIVE Missing(_, _, _)
Missing(images, id, fuel) ==
    IF images[id] = NoRecord THEN id
    ELSE IF fuel = 0 \/ images[id] = None THEN None
    ELSE Missing(images, images[id], fuel - 1)

\* C8: for an image whose parent chain reaches a base image, get_image_chain
\* returns the chain root first: N+1 entries, the first a base image, the
\* last the requested image, each entry the parent of the next.
C8_ChainRootFirst ==
    (pure.res # Pending /\ Rooted(pure.images, pure.image_id)) =>
        pure.res = OkVal(Reverse(Walk(pure.images, pure.image_id, MaxImages)))

\* C9: on a table whose links from the image contain a cycle or a dangling
\* parent_id, get_image_chain returns an error (ImageNotFound of the missing
\* id for a dangling link), never a chain.
C9_ChainFailsOnBadLinks ==
    (pure.res # Pending /\ ~Rooted(pure.images, pure.image_id)) =>
        /\ pure.res[1] = "Err"
        /\ Missing(pure.images, pure.image_id, MaxImages) # None
             => pure.res[2] = << "ImageNotFound",
                                 Missing(pure.images, pure.image_id, MaxImages) >>

\* ------------------------------------- models.rs validate_and_resolve_path
\* A path is a sequence of components; ".." is the parent component.  An
\* absolute path starts at the root: << >> is "/".
\* Longest caller-supplied relative path, in components.
MaxPathLen == 3
\* Symbolic links followed in one resolution before the OS gives up (ELOOP).
MaxSymlinks == 2

\* The file system of the runs: the base directory /srv with a directory, a
\* file and the symbolic link /srv/lnk, and /etc with a file outside it.
Dirs == { << >>, << "srv" >>, << "srv", "sub" >>, << "etc" >> }
Files == { << "srv", "f" >>, << "etc", "secret" >> }
LinkPath == << "srv", "lnk" >>

\* Where /srv/lnk may point: a directory or a file outside the base, a file
\* inside it, targets that do not exist (dangling), itself, or NoLink: there
\* is no /srv/lnk.
NoLink == << "<no link>" >>
LinkTargets ==
    { NoLink, << "etc" >>, << "etc", "secret" >>, << "srv", "f" >>,
      << "etc", "new" >>, << "srv", "new" >>, << "ghost", "new" >>, LinkPath }

\* The base directories tried: /srv, /etc, the link /srv/lnk and one that does
\* not exist.
BaseDirs == { << "srv" >>, << "etc" >>, LinkPath, << "ghost" >> }

Components == { "sub", "f", "lnk", "new", "..", "etc", "secret" }

RECURSIVE SeqsUpTo(_)
SeqsUpTo(k) ==
    IF k = 0 THEN { << >> }
    ELSE LET shorter == SeqsUpTo(k - 1)
         IN  shorter \cup { Append(q, c) : q \in shorter, c \in Components }

\* The caller-supplied path: its components, and whether it starts with "/".
RelativePaths == [absolute : BOOLEAN, comps : SeqsUpTo(MaxPathLen)]

IoError == Err("InvalidPath")

\* The OS's resolution of an absolute path (std::fs::canonicalize, and what
\* Path::exists looks up): components are resolved left to right from `cur`,
\* ".." is the parent of the directory reached, a symbolic link is replaced
\* by its target, a missing entry or a file used as a directory is an error.
RECURSIVE Resolve(_, _, _, _)
Resolve(lnk, cur, rest, fuel) ==
    IF rest = << >> THEN OkVal(cur)
    ELSE IF cur \notin Dirs THEN IoError
    ELSE IF Head(rest) = ".."
         THEN Resolve(lnk, SubSeq(cur, 1, Len(cur) - 1), Tail(rest), fuel)
    ELSE LET nxt == Append(cur, Head(rest))
         IN  IF lnk # NoLink /\ nxt = LinkPath
             THEN IF fuel = 0 THEN IoError
                  ELSE Resolve(lnk, << >>, lnk \o Tail(rest), fuel - 1)
             ELSE IF nxt \in Dirs \cup Files
                  THEN Resolve(lnk, nxt, Tail(rest), fuel)
                  ELSE IoError

\* Path::canonicalize
canonicalize(lnk, path) == Resolve(lnk, << >>, path, MaxSymlinks)
\* Path::exists: the metadata lookup succeeds
exists(lnk, path) == canonicalize(lnk, path)[1] = "Ok"
\* Path::join: an absolute argument replaces the base
join(base, rel) == IF rel.absolute THEN rel.comps ELSE base \o rel.comps
\* Path::parent: the path without its last component; none for the root
has_parent(path) == path # << >>
parent(path) == SubSeq(path, 1, Len(path) - 1)
\* Path::file_name: the last component, unless it is ".." (or the path is "/")
has_file_name(path) == path # << >> /\ path[Len(path)] # ".."
file_name(path) == path[Len(path)]

\* Path::starts_with: component-wise prefix.  (The variant is a check that
\* lets every path through.)
starts_with_anything(path, base) == TRUE
starts_with(path, base) ==
    Len(base) <= Len(path) /\ SubSeq(path, 1, Len(base)) = base

\* models.rs lines 102-116: the canonical target if it exists, else the
\* canonical parent with the file name appended.
path_to_check(lnk, full_path) ==
    IF exists(lnk, full_path) THEN canonicalize(lnk, full_path)
    ELSE IF ~has_parent(full_path) THEN IoError
    ELSE LET p == canonicalize(lnk, parent(full_path))
         IN  IF p[1] # "Ok" THEN IoError
             ELSE IF ~has_file_name(full_path) THEN IoError
             ELSE OkVal(Append(p[2], file_name(full_path)))

\* models.rs validate_and_resolve_path(base_dir, relative_path)
validate_and_resolve_path(lnk, base_dir, relative_path) ==
    LET base == canonicalize(lnk, base_dir)
    IN  IF base[1] # "Ok" THEN IoError
        ELSE LET checked == path_to_check(lnk, join(base[2], relative_path))
             IN  IF checked[1] # "Ok" THEN checked
                 ELSE IF ~starts_with(checked[2], base[2])
                      THEN Err("PathTraversal")
                      ELSE checked

InitPath ==
    /\ Quiet
    /\ pure \in [fn : { "validate_and_resolve_path" }, lnk : LinkTargets,
                 base_dir : BaseDirs, relative_path : RelativePaths,
                 res : { Pending }]

NextPath ==
    Returns(validate_and_resolve_path(pure.lnk, pure.base_dir,
                                      pure.relative_path))

SpecPath == InitPath /\ [][NextPath]_vars

\* q begins with all the components of b, in order.
IsPrefix(b, q) == Len(b) <= Len(q) /\ \A i \in 1..Len(b) : q[i] = b[i]

\* What the joined path resolves to: the existing target it names, or, when
\* the target does not exist, the existing directory named by all but its last
\* component, with that last name appended.  << >> stands for "nothing".
ResolvesTo(lnk, full) ==
    LET whole == Resolve(lnk, << >>, full, MaxSymlinks)
        dir == Resolve(lnk, << >>, SubSeq(full, 1, Len(full) - 1), MaxSymlinks)
    IN  IF whole[1] = "Ok" THEN << whole[2] >>
        ELSE IF full # << >> /\ full[Len(full)] # ".." /\ dir[1] = "Ok"
             THEN << Append(dir[2], full[Len(full)]) >>
             ELSE << >>

Designates(lnk, path) ==
    LET whole == Resolve(lnk, << >>, path, MaxSymlinks)
        dir == Resolve(lnk, << >>, SubSeq(path, 1, Len(path) - 1), MaxSymlinks)
        into == Resolve(lnk, << >>, SubSeq(lnk, 1, Len(lnk) - 1), MaxSymlinks)
    IN  IF whole[1] = "Ok" THEN << whole[2] >>
        ELSE IF path = << >> \/ path[Len(path)] = ".." \/ dir[1] # "Ok" THEN << >>
        ELSE IF lnk = NoLink \/ Append(dir[2], path[Len(path)]) # LinkPath
             THEN << Append(dir[2], path[Len(path)]) >>
        ELSE IF lnk = LinkPath \/ into[1] # "Ok" THEN << >>
        ELSE << Append(into[2], lnk[Len(lnk)]) >>

\* The call is on a target that does not exist yet: the base directory
\* resolves and the joined path does not.
C29_NoTargetYet ==
    /\ pure.res # Pending
    /\ Resolve(pure.lnk, << >>, pure.base_dir, MaxSymlinks)[1] = "Ok"
    /\ Resolve(pure.lnk, << >>,
               join(Resolve(pure.lnk, << >>, pure.base_dir, MaxSymlinks)[2],
                    pure.relative_path), MaxSymlinks)[1] # "Ok"

\* On such a call: a returned path is the canonical parent directory with the
\* final name appended; a final ".." or a missing parent directory is an error.
C29_ParentJoin ==
    C29_NoTargetYet =>
        LET base == Resolve(pure.lnk, << >>, pure.base_dir, MaxSymlinks)[2]
            full == join(base, pure.relative_path)
            dir == Resolve(pure.lnk, << >>, SubSeq(full, 1, Len(full) - 1),
                           MaxSymlinks)
        IN  /\ pure.res[1] = "Ok" =>
                 /\ dir[1] = "Ok"
                 /\ pure.res[2] = Append(dir[2], full[Len(full)])
            /\ (full = << >> \/ full[Len(full)] = ".." \/ dir[1] # "Ok")
                 => pure.res[1] = "Err"

\* C29: on a target that does not exist yet the result is the canonical parent
\* directory joined with the final file name, and the file which that path
\* designates when it is then created or opened lies inside the canonical base
\* directory, also when the final component is a dangling symbolic link; a
\* final ".." or empty name, or a missing parent directory, is an error.
C29_NonExistentTargets ==
    /\ C29_ParentJoin
    /\ (C29_NoTargetYet /\ pure.res[1] = "Ok") =>
         LET base == Resolve(pure.lnk, << >>, pure.base_dir, MaxSymlinks)[2]
             file == Designates(pure.lnk, pure.res[2])
         IN  file # << >> => IsPrefix(base, file[1])


\* ------------------------------------------ guacamole.rs sanitize_identifier
\* A string is a sequence of characters; a character is written as a string
\* ("U+00C9" is the non-ASCII letter E with acute accent).
\* Longest input string tried, in characters.
MaxIdentLen == 4

UpperSeq ==
    << "A", "B", "C", "D", "E", "F", "G", "H", "I", "J", "K", "L", "M",
       "N", "O", "P", "Q", "R", "S", "T", "U", "V", "W", "X", "Y", "Z" >>
LowerSeq ==
    << "a", "b", "c", "d", "e", "f", "g", "h", "i", "j", "k", "l", "m",
       "n", "o", "p", "q", "r", "s", "t", "u", "v", "w", "x", "y", "z" >>
DigitSeq == << "0", "1", "2", "3", "4", "5", "6", "7", "8", "9" >>
Range(q) == { q[i] : i \in 1..Len(q) }

\* char::is_ascii_alphanumeric
is_ascii_alphanumeric(ch) ==
    ch \in Range(UpperSeq) \cup Range(LowerSeq) \cup Range(DigitSeq)

\* char::to_ascii_lowercase
to_ascii_lowercase(ch) ==
    IF ch \in Range(UpperSeq)
    THEN LowerSeq[CHOOSE i \in 1..Len(UpperSeq) : UpperSeq[i] = ch]
    ELSE ch

\* lines 390-399: every character is mapped.
intermediate(input) ==
    [i \in 1..Len(input) |->
        IF is_ascii_alphanumeric(input[i]) THEN to_ascii_lowercase(input[i])
                                           ELSE "-"]

\* lines 401-413: the loop over `intermediate` with its `prev_hyphen` flag.
RECURSIVE collapse(_, _, _)
collapse(chars, prev_hyphen, result) ==
    IF chars = << >> THEN result
    ELSE IF Head(chars) = "-"
         THEN collapse(Tail(chars), TRUE,
                       IF ~prev_hyphen THEN Append(result, "-") ELSE result)
         ELSE collapse(Tail(chars), FALSE, Append(result, Head(chars)))

\* str::trim_matches(ch): the string without its leading and trailing ch's.
\* (The variant trims nothing.)
RECURSIVE trim_start_matches(_, _)
trim_start_matches(str, ch) ==
    IF str # << >> /\ Head(str) = ch THEN trim_start_matches(Tail(str), ch)
    ELSE str
RECURSIVE trim_end_matches(_, _)
trim_end_matches(str, ch) ==
    IF str # << >> /\ str[Len(str)] = ch
    THEN trim_end_matches(SubSeq(str, 1, Len(str) - 1), ch)
    ELSE str
trim_nothing(str, ch) == str
trim_matches(str, ch) == trim_end_matches(trim_start_matches(str, ch), ch)

\* guacamole.rs sanitize_identifier(input)
sanitize_identifier(input) ==
    trim_matches(collapse(intermediate(input), FALSE, << >>), "-")

\* The characters of the inputs: lower case, upper case, digit, the hyphen,
\* punctuation, and a non-ASCII letter.
IdentChars == { "a", "Z", "7", "-", "/", "U+00C9" }

RECURSIVE StringsUpTo(_)
StringsUpTo(k) ==
    IF k = 0 THEN { << >> }
    ELSE LET shorter == StringsUpTo(k - 1)
         IN  shorter \cup { Append(q, c) : q \in shorter, c \in IdentChars }

\* "My Connection/01"
MyConnection01 ==
    << "M", "y", " ", "C", "o", "n", "n", "e", "c", "t", "i", "o", "n", "/",
       "0", "1" >>

\* The value a function that cannot fail returned.
Value(v) == << "value", v >>

InitSanitize ==
    /\ Quiet
    /\ pure \in [fn : { "sanitize_identifier" },
                 input : StringsUpTo(MaxIdentLen) \cup { MyConnection01 },
                 res : { Pending }]

NextSanitize == Returns(Value(sanitize_identifier(pure.input)))

SpecSanitize == InitSanitize /\ [][NextSanitize]_vars

\* The characters the sanitizer keeps: ASCII letters (lower-cased) and digits.
Kept(ch) == ch \in Range(UpperSeq) \cup Range(LowerSeq) \cup Range(DigitSeq)
LowerCased(ch) ==
    IF \E i \in 1..Len(UpperSeq) : UpperSeq[i] = ch
    THEN LowerSeq[CHOOSE i \in 1..Len(UpperSeq) : UpperSeq[i] = ch]
    ELSE ch

\* The positions of the kept characters of q, in order.
RECURSIVE KeptPositions(_, _)
KeptPositions(q, i) ==
    IF i > Len(q) THEN << >>
    ELSE IF Kept(q[i]) THEN << i >> \o KeptPositions(q, i + 1)
    ELSE KeptPositions(q, i + 1)

\* The identifier of input q: its kept characters lower-cased, with one hyphen
\* between two of them exactly where the input has other characters between.
RECURSIVE Joined(_, _, _)
Joined(q, pos, k) ==
    IF k > Len(pos) THEN << >>
    ELSE (IF k > 1 /\ pos[k] > pos[k - 1] + 1 THEN << "-" >> ELSE << >>)
         \o << LowerCased(q[pos[k]]) >> \o Joined(q, pos, k + 1)

\* C19: the output of sanitize_identifier consists of lower-case ASCII letters,
\* digits and hyphens only; it has no two adjacent hyphens and neither starts
\* nor ends with a hyphen; it is the input's kept characters, lower-cased, in
\* order, with every run of other characters between two of them turned into
\* one hyphen; an input with no alphanumeric character gives the empty
\* string; and "My Connection/01" gives "my-connection-01".
C19_Sanitize ==
    pure.res # Pending =>
        LET out == pure.res[2]
        IN  /\ \A i \in 1..Len(out) :
                 out[i] \in Range(LowerSeq) \cup Range(DigitSeq) \cup { "-" }
            /\ \A i \in 1..(Len(out) - 1) : ~(out[i] = "-" /\ out[i + 1] = "-")
            /\ out # << >> => (out[1] # "-" /\ out[Len(out)] # "-")
            /\ out = Joined(pure.input, KeptPositions(pure.input, 1), 1)
            /\ (\A i \in 1..Len(pure.input) : ~Kept(pure.input[i])) => out = << >>
            /\ pure.input = MyConnection01 =>
                 out = << "m", "y", "-", "c", "o", "n", "n", "e", "c", "t", "i",
                          "o", "n", "-", "0", "1" >>

\* C19 witness: "My Connection/01" has been sanitized to "my-connection-01".
C19_Witness ==
    /\ pure.fn = "sanitize_identifier"
    /\ pure.input = MyConnection01
    /\ pure.res = Value(<< "m", "y", "-", "c", "o", "n", "n", "e", "c", "t", "i",
                           "o", "n", "-", "0", "1" >>)

\* --------------------------- guacamole.rs build_env_config: the identifiers
\* Longest connection name and connection prefix tried, in characters.
MaxNameLen == 2

\* format!("{}-{}", a, b)
format_hyphen(a, b) == a \o << "-" >> \o b

\* build_env_config(env, connection_name), lines 275-280 and 285-297: the
\* identifier fields of the EnvConfig it returns, given the keys of env and the
\* value of GUAC_CONNECTION_PREFIX; a key read with `.unwrap()` that is
\* missing panics.
EnvConfig(keys, prefix_value, connection_name) ==
    IF ~(BuildEnvKeys \subseteq keys) THEN UnwrapNone
    ELSE LET connection_prefix == sanitize_identifier(prefix_value)
             connection_key == sanitize_identifier(connection_name)
         IN  Value([connection_prefix |-> connection_prefix,
                    connection_key |-> connection_key,
                    client_identifier |->
                        format_hyphen(connection_prefix, connection_key)])

\* from_vnc lines 195-205 (new: lines 134-144): the GuacamoleConnection takes
\* connection_key and client_identifier from the EnvConfig as they are.
GuacamoleConnection(env_cfg) ==
    IF env_cfg[1] # "value" THEN env_cfg
    ELSE Value([connection_key |-> env_cfg[2].connection_key,
                client_identifier |-> env_cfg[2].client_identifier])

InitEnvConfig ==
    /\ Quiet
    /\ pure \in [fn : { "build_env_config" },
                 keys : EnvChoices,
                 GUAC_CONNECTION_PREFIX : StringsUpTo(MaxNameLen),
                 connection_name : StringsUpTo(MaxNameLen),
                 res : { Pending }]

NextEnvConfig ==
    Returns(GuacamoleConnection(EnvConfig(pure.keys, pure.GUAC_CONNECTION_PREFIX,
                                          pure.connection_name)))

SpecEnvConfig == InitEnvConfig /\ [][NextEnvConfig]_vars

\* A configuration the startup validation accepts: the keys the bridge reads
\* are present and the connection prefix does not sanitize to the empty string.
Accepted(keys, prefix_value) ==
    /\ BuildEnvKeys \subseteq keys
    /\ \E i \in 1..Len(prefix_value) : Kept(prefix_value[i])

\* C20: gateway identifiers are never empty: under an accepted configuration,
\* for every connection name, the connection built has a non-empty connection
\* key, and its client identifier is a non-empty prefix, a hyphen and that
\* non-empty key.
C20_NonEmptyIdentifiers ==
    (pure.res # Pending /\ Accepted(pure.keys, pure.GUAC_CONNECTION_PREFIX)) =>
        /\ pure.res[1] = "value"
        /\ pure.res[2].connection_key # << >>
        /\ \E a, b \in StringsUpTo(MaxNameLen) \ { << >> } :
             /\ b = pure.res[2].connection_key
             /\ pure.res[2].client_identifier = a \o << "-" >> \o b

\* ------------------------------------ guacamole.rs build_env_config: the URLs
\* Most slashes put at an end of a base URL or of a path.
MaxSlashes == 2

Https == << "h", "t", "t", "p", "s", ":", "/", "/" >>
Http == << "h", "t", "t", "p", ":", "/", "/" >>
Wss == << "w", "s", "s", ":", "/", "/" >>
Ws == << "w", "s", ":", "/", "/" >>

\* str::trim: the string without leading and trailing white space.
trim(str) == trim_matches(str, " ")

\* str::strip_prefix(prefix): whether str starts with prefix, and the rest.
has_prefix(str, prefix) ==
    Len(prefix) <= Len(str) /\ SubSeq(str, 1, Len(prefix)) = prefix
strip_prefix(str, prefix) == SubSeq(str, Len(prefix) + 1, Len(str))

\* format!("{}/{}", a, b)
format_slash(a, b) == a \o << "/" >> \o b

\* compute_websocket_url(base_http_url, tunnel_path)
compute_websocket_url(base_http_url, tunnel_path) ==
    LET https == has_prefix(base_http_url, Https)
        http == has_prefix(base_http_url, Http)
        scheme == IF https THEN Wss ELSE Ws
        remainder == IF https THEN strip_prefix(base_http_url, Https)
                     ELSE IF http THEN strip_prefix(base_http_url, Http)
                     ELSE base_http_url
    IN  scheme \o format_slash(trim_matches(remainder, "/"),
                               trim_matches(tunnel_path, "/"))

\* build_env_config, lines 257-274 and 281-283: the URL fields of the EnvConfig
\* from the values of GUAC_URL, GUAC_TUNNEL_PATH and GUAC_API_PATH.  No other
\* key is read for them.
EnvUrls(GUAC_URL, GUAC_TUNNEL_PATH, GUAC_API_PATH) ==
    LET base_http_url == trim_end_matches(trim(GUAC_URL), "/")
        tunnel_path == trim_matches(trim(GUAC_TUNNEL_PATH), "/")
        api_path == trim_matches(trim(GUAC_API_PATH), "/")
    IN  [api_url |-> format_slash(base_http_url, api_path),
         tunnel_url |-> format_slash(base_http_url, tunnel_path),
         websocket_url |-> compute_websocket_url(base_http_url, tunnel_path)]

\* n slashes
RECURSIVE Slashes(_)
Slashes(n) == IF n = 0 THEN << >> ELSE << "/" >> \o Slashes(n - 1)

\* The configured values: a base URL with or without scheme, with trailing
\* slashes and surrounding blanks; paths with leading and trailing slashes.
GatewayHost == << "g", ":", "8" >>
TunnelName == << "w", "/", "t" >>
ApiName == << "a" >>
Blanks == { << >>, << " " >> }
UrlOf(u) == u.blank \o u.scheme \o GatewayHost \o Slashes(u.slashes) \o u.blank
PathOf(name, q) == Slashes(q.lead) \o name \o Slashes(q.trail)

\* An explicitly configured websocket URL (<< >>: none is configured).
ExplicitUrl == Wss \o << "x" >>

InitUrls ==
    /\ Quiet
    /\ pure \in [fn : { "build_env_config" },
                 url : [scheme : { Https, Http, << >> }, slashes : 0..MaxSlashes,
                        blank : Blanks],
                 tunnel : [lead : 0..MaxSlashes, trail : 0..MaxSlashes],
                 api : [lead : 0..MaxSlashes, trail : 0..MaxSlashes],
                 explicit_websocket_url : { << >>, ExplicitUrl },
                 res : { Pending }]

NextUrls ==
    Returns(Value(EnvUrls(UrlOf(pure.url), PathOf(TunnelName, pure.tunnel),
                          PathOf(ApiName, pure.api))))

SpecUrls == InitUrls /\ [][NextUrls]_vars

\* The websocket scheme of an HTTP scheme.
WsSchemeOf(scheme) == IF scheme = Https THEN Wss ELSE Ws

\* The URLs derived from the configured parts: scheme, host, one slash, path.
C28_Derived ==
    /\ pure.res[2].websocket_url =
         WsSchemeOf(pure.url.scheme) \o GatewayHost \o << "/" >> \o TunnelName
    /\ pure.res[2].tunnel_url =
         pure.url.scheme \o GatewayHost \o << "/" >> \o TunnelName
    /\ pure.res[2].api_url =
         pure.url.scheme \o GatewayHost \o << "/" >> \o ApiName

\* C28: the websocket URL of a connection is the explicitly configured one
\* when one is configured; otherwise it is the base URL with https:// turned
\* into wss:// and http:// into ws://, joined to the tunnel path with exactly
\* one slash; the API URL and the tunnel URL are base, one slash, path.
C28_WebsocketUrl ==
    pure.res # Pending =>
        IF pure.explicit_websocket_url # << >>
        THEN pure.res[2].websocket_url = pure.explicit_websocket_url
        ELSE C28_Derived

\* The derived URLs alone, whatever is configured explicitly.
C28_DerivedUrls == pure.res # Pending => C28_Derived

====
